---------------------------- MODULE Spec2Model ----------------------------
(***************************************************************************)
(* A model of scripts/plagiarism_core.py: the SQLite store (documents,     *)
(* fingerprints, lsh_buckets), the PlagiarismChecker handles with their    *)
(* in-memory LSH tables, and the add / check / list / delete operations,   *)
(* statement by statement, with the transactions the sqlite3 module opens. *)
(*                                                                         *)
(* Texts are sequences of one-character strings.  Percentages are kept in  *)
(* hundredths of a point (10000 = 100.00), which is what round(x, 2)       *)
(* leaves.  Python's integers do not overflow; the hash width is scaled    *)
(* down (HashBits) so that the arithmetic stays inside TLC's integers.     *)
(* MD5 is modelled as a fixed deterministic hash: a polynomial hash for    *)
(* shingles (reduced mod max_hash as in the code) and the band's encoded   *)
(* string itself for band digests (MD5 taken as collision-free there).     *)
(* The columns title, author, filename, word_count, upload_date and        *)
(* category are carried by the code but never inspected by it; document    *)
(* rows keep id and content only.                                          *)
(***************************************************************************)
EXTENDS Integers, Sequences, FiniteSets, TLC

(***************************************************************************)
(* Bounds of the model.                                                    *)
(***************************************************************************)
\* operations (constructions included) the callers start in one behaviour
MaxOps == 5
\* width of the shingle hash (32 in the code)
HashBits == 10
\* the longest run of one word in the texts given to the fragment finder
MaxRun == 7

(***************************************************************************)
(* Program constants.                                                      *)
(***************************************************************************)
shingle_size == 5
seed == 42
window_size == 5
min_length == 30
MaxFragments == 5
\* the refinement threshold 0.3 as RefineNum / RefineDen
RefineNum == 3
RefineDen == 10

Handles == {"h1", "h2"}

(***************************************************************************)
(* Characters and texts.                                                   *)
(***************************************************************************)
LowerSeq == <<"a","b","c","d","e","f","g","h","i","j","k","l","m",
              "n","o","p","q","r","s","t","u","v","w","x","y","z">>
UpperSeq == <<"A","B","C","D","E","F","G","H","I","J","K","L","M",
              "N","O","P","Q","R","S","T","U","V","W","X","Y","Z">>
DigitSeq == <<"0","1","2","3","4","5","6","7","8","9">>
\* the characters a normalized text is made of, the space first
NormSeq == <<" ">> \o LowerSeq \o DigitSeq \o <<"_">>

Range(s) == {s[i] : i \in DOMAIN s}
Min(S) == CHOOSE m \in S : \A n \in S : m <= n
Max(S) == CHOOSE m \in S : \A n \in S : m >= n

IsSpace(c) == c \in {" ", "\n", "\t"}
IsWordChar(c) == c \in Range(LowerSeq) \cup Range(UpperSeq) \cup Range(DigitSeq) \cup {"_"}
Lower(c) == IF c \in Range(UpperSeq)
            THEN LowerSeq[CHOOSE i \in DOMAIN UpperSeq : UpperSeq[i] = c]
            ELSE c
Code(c) == IF c \in Range(NormSeq)
           THEN (CHOOSE i \in DOMAIN NormSeq : NormSeq[i] = c) - 1
           ELSE Len(NormSeq)

\* re.sub(r'\s+', ' ', text): of each run of whitespace the first character
\* is kept, as a space, and every other character is kept as it is
CollapseSpaces(s) ==
    LET kept == {i \in DOMAIN s : ~IsSpace(s[i]) \/ i = 1 \/ ~IsSpace(s[i - 1])}
        Nth(r) == CHOOSE i \in kept : Cardinality({j \in kept : j <= i}) = r
    IN  [r \in 1..Cardinality(kept) |->
            IF IsSpace(s[Nth(r)]) THEN " " ELSE s[Nth(r)]]

\* str.strip() of a text whose whitespace runs are already single spaces
Strip(s) ==
    LET a == IF s # <<>> /\ IsSpace(s[1]) THEN Tail(s) ELSE s
    IN  IF a # <<>> /\ IsSpace(a[Len(a)]) THEN SubSeq(a, 1, Len(a) - 1) ELSE a

preprocess_text(text) ==
    LET lowered == [i \in DOMAIN text |-> Lower(text[i])]
        cleaned == [i \in DOMAIN lowered |->
                       IF IsWordChar(lowered[i]) \/ IsSpace(lowered[i])
                       THEN lowered[i] ELSE " "]
    IN  Strip(CollapseSpaces(cleaned))

create_shingles(text, k) ==
    LET t == preprocess_text(text)
    IN  IF Len(t) < k THEN {t}
        ELSE {SubSeq(t, i, i + k - 1) : i \in 1..(Len(t) - k + 1)}

(***************************************************************************)
(* MinHash.                                                                *)
(***************************************************************************)
RECURSIVE Pow2(_)
Pow2(n) == IF n = 0 THEN 1 ELSE 2 * Pow2(n - 1)

max_hash == Pow2(HashBits) - 1

IsPrime(p) == p > 1 /\ \A d \in 2..(p - 1) : p % d # 0
\* 4294967311 is the first prime above 2^32 - 1; the model takes the first
\* prime above its own max_hash
prime == Min({p \in (max_hash + 1)..(2 * max_hash + 2) : IsPrime(p)})

\* h(x) = (a * x + b) mod prime, a in 1..max_hash, b in 0..max_hash, drawn
\* from a generator seeded with seed: a fixed table for a fixed seed
hash_params(i) ==
    << 1 + ((seed * 7919 * i + 13 * i * i) % max_hash),
       (seed * 31 * i + 17 * i * i * i) % (max_hash + 1) >>

RECURSIVE Digest(_, _)
Digest(s, acc) == IF s = <<>> THEN acc
                  ELSE Digest(Tail(s), (acc * 131 + Code(Head(s)) + 1) % 1000003)

_hash_shingle(shingle) == Digest(shingle, 7) % max_hash

compute_signature(shingles, num_hashes) ==
    [i \in 1..num_hashes |->
        Min({max_hash} \cup
            {(hash_params(i)[1] * _hash_shingle(s) + hash_params(i)[2]) % prime
                : s \in shingles})]

\* the number of equal slots; the estimate is Matches / Len(sig1)
Matches(sig1, sig2) == Cardinality({i \in DOMAIN sig1 : sig1[i] = sig2[i]})

(***************************************************************************)
(* Similarity.                                                             *)
(***************************************************************************)
\* round(100 * num / den, 2) in hundredths, ties to even as Python rounds
RoundHundredths(num, den) ==
    LET q == (10000 * num) \div den
        r == (10000 * num) % den
    IN  IF 2 * r > den \/ (2 * r = den /\ q % 2 = 1) THEN q + 1 ELSE q

\* a similarity that divides by the size of the first set, not of the union
jaccard_similarity_over_first(set1, set2) ==
    IF set1 = {} \/ set2 = {} THEN <<0, 1>>
    ELSE <<Cardinality(set1 \cap set2), Cardinality(set1)>>

\* [num, den] of the exact Jaccard similarity; 0.0 is [0, 1]
jaccard_similarity(set1, set2) ==
    IF set1 = {} \/ set2 = {} THEN <<0, 1>>
    ELSE IF Cardinality(set1 \cup set2) > 0
         THEN <<Cardinality(set1 \cap set2), Cardinality(set1 \cup set2)>>
         ELSE <<0, 1>>


\* a sort that leaves the list as it was
SortDesc_unsorted(s, keys) == s

\* the order list.sort(key, reverse=True) leaves: by key descending, equal
\* keys in their original order (the sort is stable)
SortDesc(s, keys) ==
    LET Rank(i) == 1 + Cardinality({j \in DOMAIN s :
                        keys[j] > keys[i] \/ (keys[j] = keys[i] /\ j < i)})
    IN  [r \in DOMAIN s |-> s[CHOOSE i \in DOMAIN s : Rank(i) = r]]

\* s[:n]
Take(s, n) == SubSeq(s, 1, IF Len(s) < n THEN Len(s) ELSE n)

(***************************************************************************)
(* The fragment finder.                                                    *)
(***************************************************************************)
RECURSIVE Split(_, _)
\* str.split() of a normalized text: cur is the word being read
Split(s, cur) ==
    IF s = <<>> THEN (IF cur = <<>> THEN <<>> ELSE <<cur>>)
    ELSE IF IsSpace(Head(s))
         THEN (IF cur = <<>> THEN <<>> ELSE <<cur>>) \o Split(Tail(s), <<>>)
         ELSE Split(Tail(s), Append(cur, Head(s)))

RECURSIVE Join(_)
\* ' '.join(words)
Join(words) ==
    IF words = <<>> THEN <<>>
    ELSE IF Len(words) = 1 THEN words[1]
    ELSE words[1] \o <<" ">> \o Join(Tail(words))

\* the 0-based offsets at which p occurs in s
Occurrences(p, s) ==
    {i \in 0..(Len(s) - Len(p)) : SubSeq(s, i + 1, i + Len(p)) = p}
\* p in s
Contains(p, s) == Occurrences(p, s) # {}
\* s.find(p)
Find(p, s) == IF Contains(p, s) THEN Min(Occurrences(p, s)) ELSE -1

RECURSIVE Extend(_, _, _, _)
\* the while loop that extends a match: the final match_end
Extend(words1, text2, match_start, match_end) ==
    IF match_end < Len(words1)
       /\ Contains(Join(SubSeq(words1, match_start + 1, match_end + 1)), text2)
    THEN Extend(words1, text2, match_start, match_end + 1)
    ELSE match_end

RECURSIVE CollectMatches(_, _, _, _)
\* the for loop over the start indices i, i+1, ... of words1
CollectMatches(words1, text2, i, min_len) ==
    IF i > Len(words1) - window_size THEN <<>>
    ELSE LET window == Join(SubSeq(words1, i + 1, i + window_size))
             match_end == Extend(words1, text2, i, i + window_size)
             matched_text == Join(SubSeq(words1, i + 1, match_end))
             found == IF Contains(window, text2) /\ Len(matched_text) >= min_len
                      THEN << [text |-> matched_text,
                               position_doc1 |-> i,
                               position_doc2 |-> Find(matched_text, text2),
                               length |-> Len(Split(matched_text, <<>>))] >>
                      ELSE <<>>
         IN  found \o CollectMatches(words1, text2, i + 1, min_len)

RECURSIVE FilterOverlaps(_, _)
\* the greedy pass: a match is kept unless its start is already used
FilterOverlaps(matches, used_positions) ==
    IF matches = <<>> THEN <<>>
    ELSE LET match == Head(matches)
             pos == match.position_doc1
         IN  IF pos \notin used_positions
             THEN <<match>> \o FilterOverlaps(Tail(matches),
                      used_positions \cup (pos..(pos + match.length - 1)))
             ELSE FilterOverlaps(Tail(matches), used_positions)

find_matching_fragments(text1, text2) ==
    LET words1 == Split(preprocess_text(text1), <<>>)
        words2 == Split(preprocess_text(text2), <<>>)
        text2_processed == Join(words2)
        matches == CollectMatches(words1, text2_processed, 0, min_length)
        sorted == SortDesc(matches, [i \in DOMAIN matches |-> matches[i].length])
    IN  FilterOverlaps(sorted, {})

(***************************************************************************)
(* LSH: banding, and the in-memory table as the set of its                 *)
(* <<band_id, bucket_hash, doc_id>> memberships.                           *)
(***************************************************************************)
\* signature[start:end] as Python slices it: cut at the signature's end
Band(signature, band_id, rows_per_band) ==
    LET start == band_id * rows_per_band
        end == start + rows_per_band
    IN  SubSeq(signature, start + 1, IF end < Len(signature) THEN end ELSE Len(signature))

RECURSIVE JoinDecimal(_)
\* ','.join(map(str, band))
JoinDecimal(band) ==
    IF band = <<>> THEN ""
    ELSE IF Len(band) = 1 THEN ToString(band[1])
    ELSE ToString(band[1]) \o "," \o JoinDecimal(Tail(band))

_hash_band(band) == JoinDecimal(band)

\* the entries index_signature adds and save_to_db inserts, band by band
BandEntry(c, band_id, doc_id, signature) ==
    <<band_id, _hash_band(Band(signature, band_id, c.rows_per_band)), doc_id>>

index_signature(table, c, doc_id, signature) ==
    table \cup {BandEntry(c, b, doc_id, signature) : b \in 0..(c.num_bands - 1)}

\* a lookup that stops after the first band
find_candidates_first_band(table, c, signature) ==
    {e[3] : e \in {t \in table :
                       /\ t[1] = 0
                       /\ t[2] = _hash_band(Band(signature, 0, c.rows_per_band))}}

find_candidates(table, c, signature) ==
    {e[3] : e \in {t \in table : \E b \in 0..(c.num_bands - 1) :
                       /\ t[1] = b
                       /\ t[2] = _hash_band(Band(signature, b, c.rows_per_band))}}

(***************************************************************************)
(* Inputs: the texts callers add and check, the top_k they ask for, and    *)
(* the construction parameters they pass.                                  *)
(***************************************************************************)
\* "Alpha bravo, charlie delta echoes"
DocA ==
    <<"A","l","p","h","a"," ","b","r","a","v","o",","," ","c","h","a",
      "r","l","i","e"," ","d","e","l","t","a"," ","e","c","h","o","e",
      "s">>
\* "alpha bravo charlie delta echoes"
DocB ==
    <<"a","l","p","h","a"," ","b","r","a","v","o"," ","c","h","a","r",
      "l","i","e"," ","d","e","l","t","a"," ","e","c","h","o","e","s">>
\* "alpha bravo charlie delta echoes foxtrot"
DocC ==
    <<"a","l","p","h","a"," ","b","r","a","v","o"," ","c","h","a","r",
      "l","i","e"," ","d","e","l","t","a"," ","e","c","h","o","e","s",
      " ","f","o","x","t","r","o","t">>
\* "zulu"
DocD ==
    <<"z","u","l","u">>

\* the texts callers pass, by name: the state keeps a content as its name
Corpus == [docA |-> DocA, docB |-> DocB, docC |-> DocC, docD |-> DocD]
Texts == DOMAIN Corpus
\* the texts passed where two callers run side by side
FewTexts == {"docA", "docC"}
TopKs == {1, 2}

\* num_bands * rows_per_band = num_hashes, as the defaults 16 * 8 = 128
DefaultConfig == [num_hashes |-> 4, num_bands |-> 2, rows_per_band |-> 2]
\* what a caller may pass: the consistent parameters and two mismatches
AnyConfigs == {DefaultConfig,
               [num_hashes |-> 4, num_bands |-> 2, rows_per_band |-> 1],
               [num_hashes |-> 3, num_bands |-> 2, rows_per_band |-> 2]}
HashCounts == {c.num_hashes : c \in AnyConfigs}

\* the pure pipeline evaluated once per input text
ShingleTable == [t \in Texts |-> create_shingles(Corpus[t], shingle_size)]
SignatureTable == [t \in Texts |-> [n \in HashCounts |->
                      compute_signature(ShingleTable[t], n)]]
FragmentTable == [q \in Texts |-> [d \in Texts |->
                      find_matching_fragments(Corpus[q], Corpus[d])]]

Shingles(content) == ShingleTable[content]
Signature(content, c) == SignatureTable[content][c.num_hashes]
Fragments(content, doc_content) == FragmentTable[content][doc_content]

(***************************************************************************)
(* State.                                                                  *)
(***************************************************************************)
VARIABLES
    db,        \* the committed store: documents, fingerprints, lsh_buckets
               \* rows and seq, the AUTOINCREMENT counter of documents
    txn,       \* the open write transaction: its connection's handle and
               \* its uncommitted view of the store
    alive,     \* alive[h]: handle h is constructed
    cfg,       \* cfg[h]: the parameters h was constructed with
    buckets,   \* buckets[h]: h.lsh.buckets
    pc,        \* pc[h]: where h's running operation stands
    loc,       \* loc[h]: the local variables of h's running operation; a
               \* check also keeps at_start, live and gone as it began, and
               \* estimates, the <<doc_id, equal slots>> of the candidates
               \* it has read; a delete keeps was_live, whether its id was
               \* live as it began
    born,      \* born[h]: the ids live when h was constructed
    live,      \* ids an add has returned and no delete was called on,
               \* before or after that return
    gone,      \* ids a delete has returned true for
    last,      \* what the step just taken returned or raised to its
               \* caller, NoReturn when it was not the end of an operation
    ops,       \* the operations started so far
    issued,    \* the ids adds have returned
    failed     \* the ids of the adds that raised an error

vars == <<db, txn, alive, cfg, buckets, pc, loc, born, live, gone, last, ops, issued, failed>>

NoTxn == [owner |-> "none"]
NoConfig == [num_hashes |-> 0, num_bands |-> 0, rows_per_band |-> 0]
NoLocals == [op |-> "none"]
NoReturn == [op |-> "none"]

EmptyStore == [documents |-> {}, fingerprints |-> {}, lsh_buckets |-> {}, seq |-> 0]

Init ==
    /\ db = EmptyStore
    /\ txn = NoTxn
    /\ alive = [h \in Handles |-> FALSE]
    /\ cfg = [h \in Handles |-> NoConfig]
    /\ buckets = [h \in Handles |-> {}]
    /\ pc = [h \in Handles |-> "idle"]
    /\ loc = [h \in Handles |-> NoLocals]
    /\ born = [h \in Handles |-> {}]
    /\ live = {}
    /\ gone = {}
    /\ last = NoReturn
    /\ ops = 0
    /\ issued = {}
    /\ failed = {}

\* the handle may start a write statement: no other connection holds the
\* store's write lock
MayWrite(h) == txn.owner \in {"none", h}
\* the store as h's connection sees it while it writes
View(h) == IF txn.owner = h THEN txn.db ELSE db

Idle(h) == alive[h] /\ pc[h] = "idle"

\* a caller starts one more operation
Started == ops < MaxOps /\ ops' = ops + 1

(***************************************************************************)
(* Construction and teardown.                                              *)
(***************************************************************************)
\* a constructor that leaves the table empty
load_from_db_skipped(store) == {}

\* a load that joins lsh_buckets with documents: rows of an id that is not
\* in documents are left out
load_from_db_joined(store) ==
    {<<r.band_id, r.bucket_hash, r.document_id>> :
        r \in {x \in store.lsh_buckets :
                  \E d \in store.documents : d.id = x.document_id}}

\* SELECT band_id, bucket_hash, document_id FROM lsh_buckets, into the table
load_from_db(store) ==
    {<<r.band_id, r.bucket_hash, r.document_id>> : r \in store.lsh_buckets}

\* PlagiarismChecker(num_hashes, num_bands, rows_per_band)
ConstructWith(h, c) ==
    /\ ~alive[h]
    /\ Started
    /\ alive' = [alive EXCEPT ![h] = TRUE]
    /\ cfg' = [cfg EXCEPT ![h] = c]
    /\ buckets' = [buckets EXCEPT ![h] = load_from_db(db)]
    /\ born' = [born EXCEPT ![h] = live]
    /\ last' = NoReturn
    /\ UNCHANGED <<db, txn, pc, loc, live, gone, issued, failed>>

Construct(h) == ConstructWith(h, DefaultConfig)

ConstructAny(h) == \E c \in AnyConfigs : ConstructWith(h, c)

\* the handle's memory is released; an open transaction is rolled back
Release(h) ==
    /\ alive' = [alive EXCEPT ![h] = FALSE]
    /\ cfg' = [cfg EXCEPT ![h] = NoConfig]
    /\ buckets' = [buckets EXCEPT ![h] = {}]
    /\ pc' = [pc EXCEPT ![h] = "idle"]
    /\ loc' = [loc EXCEPT ![h] = NoLocals]
    /\ last' = NoReturn
    /\ born' = [born EXCEPT ![h] = {}]
    /\ txn' = IF txn.owner = h THEN NoTxn ELSE txn
    /\ UNCHANGED <<db, live, gone, ops, issued, failed>>

\* the handle is dropped between operations
Teardown(h) == Idle(h) /\ Release(h)

\* the process dies inside an operation
Crash(h) == alive[h] /\ pc[h] # "idle" /\ Release(h)


(***************************************************************************)
(* add_document.                                                           *)
(***************************************************************************)
\* the id a plain INTEGER PRIMARY KEY would give: one above the largest id
\* now in documents, so the id of a deleted last row is issued again
NextId_rowid(store) ==
    IF store.documents = {} THEN 1 ELSE Max({d.id : d \in store.documents}) + 1

\* an id taken from the number of rows: one above COUNT(*) of documents
NextId_count(store) == Cardinality(store.documents) + 1

\* the id INTEGER PRIMARY KEY AUTOINCREMENT gives the next documents row
NextId(store) == store.seq + 1

\* INSERT INTO documents ...; doc_id = cursor.lastrowid.  The statement
\* opens the connection's transaction and takes the write lock.
AddInsertDocument(h, content) ==
    /\ Idle(h)
    /\ Started
    /\ txn.owner = "none"
    /\ LET doc_id == NextId(db)
       IN  /\ txn' = [owner |-> h,
                      db |-> [db EXCEPT !.documents = @ \cup {[id |-> doc_id, content |-> content]},
                                        !.seq = doc_id]]
           /\ loc' = [loc EXCEPT ![h] = [op |-> "add", content |-> content,
                                         doc_id |-> doc_id]]
    /\ pc' = [pc EXCEPT ![h] = "add_doc"]
    /\ last' = NoReturn
    /\ UNCHANGED <<db, alive, cfg, buckets, born, live, gone, issued, failed>>

\* shingles, signature, INSERT INTO fingerprints ...
AddInsertFingerprint(h) ==
    /\ alive[h] /\ pc[h] = "add_doc"
    /\ LET signature == Signature(loc[h].content, cfg[h])
       IN  /\ txn' = [txn EXCEPT !.db.fingerprints =
                         @ \cup {[document_id |-> loc[h].doc_id, signature |-> signature]}]
           /\ loc' = [loc EXCEPT ![h] = [op |-> "add", content |-> loc[h].content,
                                         doc_id |-> loc[h].doc_id,
                                         signature |-> signature]]
    /\ pc' = [pc EXCEPT ![h] = "add_fp"]
    /\ last' = NoReturn
    /\ UNCHANGED <<db, alive, cfg, buckets, born, live, gone, ops, issued, failed>>

\* conn.commit(); conn.close(): the document and its fingerprint are stored
AddCommit(h) ==
    /\ alive[h] /\ pc[h] = "add_fp"
    /\ db' = txn.db
    /\ txn' = NoTxn
    /\ pc' = [pc EXCEPT ![h] = "add_index"]
    /\ last' = NoReturn
    /\ UNCHANGED <<alive, cfg, buckets, loc, born, live, gone, ops, issued, failed>>

\* self.lsh.index_signature(doc_id, signature)
AddIndex(h) ==
    /\ alive[h] /\ pc[h] = "add_index"
    /\ buckets' = [buckets EXCEPT ![h] =
                      index_signature(@, cfg[h], loc[h].doc_id, loc[h].signature)]
    /\ loc' = [loc EXCEPT ![h] = [op |-> "add", content |-> loc[h].content,
                                  doc_id |-> loc[h].doc_id,
                                  signature |-> loc[h].signature, band_id |-> 0]]
    /\ pc' = [pc EXCEPT ![h] = "add_save"]
    /\ last' = NoReturn
    /\ UNCHANGED <<db, txn, alive, cfg, born, live, gone, ops, issued, failed>>

\* save_to_db: INSERT INTO lsh_buckets ... for the next band, on a second
\* connection; the first insert opens its transaction
AddSaveInsert(h) ==
    /\ alive[h] /\ pc[h] = "add_save"
    /\ loc[h].band_id < cfg[h].num_bands
    /\ MayWrite(h)
    /\ LET e == BandEntry(cfg[h], loc[h].band_id, loc[h].doc_id, loc[h].signature)
           row == [band_id |-> e[1], bucket_hash |-> e[2], document_id |-> e[3]]
       IN  txn' = [owner |-> h,
                   db |-> [View(h) EXCEPT !.lsh_buckets = @ \cup {row}]]
    /\ loc' = [loc EXCEPT ![h].band_id = @ + 1]
    /\ last' = NoReturn
    /\ UNCHANGED <<db, alive, cfg, buckets, pc, born, live, gone, ops, issued, failed>>

\* save_to_db: conn.commit(); conn.close(); then return doc_id
AddSaveCommit(h) ==
    /\ alive[h] /\ pc[h] = "add_save"
    /\ loc[h].band_id >= cfg[h].num_bands
    /\ db' = View(h)
    /\ txn' = IF txn.owner = h THEN NoTxn ELSE txn
    /\ pc' = [pc EXCEPT ![h] = "idle"]
    /\ last' = [h |-> h, op |-> "add", doc_id |-> loc[h].doc_id]
    /\ loc' = [loc EXCEPT ![h] = NoLocals]
    /\ live' = IF \/ loc[h].doc_id \in gone
                   \/ \E g \in Handles : loc[g].op = "delete" /\ loc[g].doc_id = loc[h].doc_id
                THEN live ELSE live \cup {loc[h].doc_id}
    /\ issued' = issued \cup {loc[h].doc_id}
    /\ UNCHANGED <<alive, cfg, buckets, born, gone, ops, failed>>

\* a statement or commit of add_document raises sqlite3.Error (the store is
\* locked, the disk is full): the exception leaves add_document, the open
\* transaction is rolled back when its connection is dropped, and nothing
\* in add_document undoes what it has done so far
AddError(h) ==
    /\ alive[h] /\ pc[h] \in {"add_doc", "add_fp", "add_save"}
    /\ txn' = IF txn.owner = h THEN NoTxn ELSE txn
    /\ pc' = [pc EXCEPT ![h] = "idle"]
    /\ last' = [h |-> h, op |-> "add_error", doc_id |-> loc[h].doc_id]
    /\ loc' = [loc EXCEPT ![h] = NoLocals]
    /\ failed' = failed \cup {loc[h].doc_id}
    /\ UNCHANGED <<db, alive, cfg, buckets, born, live, gone, ops, issued>>

(***************************************************************************)
(* delete_document.                                                        *)
(***************************************************************************)
\* a delete whose first statement names the wrong column:
\* DELETE FROM lsh_buckets WHERE band_id = ?
DeleteBuckets_by_band(h, doc_id) ==
    /\ Idle(h)
    /\ Started
    /\ txn.owner = "none"
    /\ txn' = [owner |-> h,
               db |-> [db EXCEPT !.lsh_buckets = {r \in @ : r.band_id # doc_id}]]
    /\ pc' = [pc EXCEPT ![h] = "del_buckets"]
    /\ loc' = [loc EXCEPT ![h] = [op |-> "delete", doc_id |-> doc_id, rowcount |-> 0,
                                  was_live |-> doc_id \in live]]
    /\ last' = NoReturn
    /\ live' = live \ {doc_id}
    /\ UNCHANGED <<db, alive, cfg, buckets, born, gone, issued, failed>>

\* DELETE FROM lsh_buckets WHERE document_id = ?
DeleteBuckets(h, doc_id) ==
    /\ Idle(h)
    /\ Started
    /\ txn.owner = "none"
    /\ txn' = [owner |-> h,
               db |-> [db EXCEPT !.lsh_buckets = {r \in @ : r.document_id # doc_id}]]
    /\ pc' = [pc EXCEPT ![h] = "del_buckets"]
    /\ loc' = [loc EXCEPT ![h] = [op |-> "delete", doc_id |-> doc_id, rowcount |-> 0,
                                  was_live |-> doc_id \in live]]
    /\ last' = NoReturn
    /\ live' = live \ {doc_id}
    /\ UNCHANGED <<db, alive, cfg, buckets, born, gone, issued, failed>>

\* a delete on a connection in autocommit mode: the DELETE of the bucket
\* rows is committed before the next statement runs
DeleteFingerprints_autocommit(h) ==
    /\ alive[h] /\ pc[h] = "del_buckets"
    /\ db' = [db EXCEPT !.lsh_buckets = {r \in @ : r.document_id # loc[h].doc_id}]
    /\ txn' = [txn EXCEPT !.db.fingerprints = {r \in @ : r.document_id # loc[h].doc_id}]
    /\ pc' = [pc EXCEPT ![h] = "del_fp"]
    /\ last' = NoReturn
    /\ UNCHANGED <<alive, cfg, buckets, loc, born, live, gone, ops, issued, failed>>

\* DELETE FROM fingerprints WHERE document_id = ?
DeleteFingerprints(h) ==
    /\ alive[h] /\ pc[h] = "del_buckets"
    /\ txn' = [txn EXCEPT !.db.fingerprints = {r \in @ : r.document_id # loc[h].doc_id}]
    /\ pc' = [pc EXCEPT ![h] = "del_fp"]
    /\ last' = NoReturn
    /\ UNCHANGED <<db, alive, cfg, buckets, loc, born, live, gone, ops, issued, failed>>

\* DELETE FROM documents WHERE id = ?
DeleteDocuments(h) ==
    /\ alive[h] /\ pc[h] = "del_fp"
    /\ txn' = [txn EXCEPT !.db.documents = {r \in @ : r.id # loc[h].doc_id}]
    /\ loc' = [loc EXCEPT ![h].rowcount =
                  Cardinality({r \in txn.db.documents : r.id = loc[h].doc_id})]
    /\ pc' = [pc EXCEPT ![h] = "del_doc"]
    /\ last' = NoReturn
    /\ UNCHANGED <<db, alive, cfg, buckets, born, live, gone, ops, issued, failed>>

\* conn.commit(); deleted = cursor.rowcount > 0; conn.close(); return deleted
DeleteCommit(h) ==
    /\ alive[h] /\ pc[h] = "del_doc"
    /\ db' = txn.db
    /\ txn' = NoTxn
    /\ pc' = [pc EXCEPT ![h] = "idle"]
    /\ last' = [h |-> h, op |-> "delete", doc_id |-> loc[h].doc_id,
                deleted |-> loc[h].rowcount > 0, was_live |-> loc[h].was_live]
    /\ gone' = IF loc[h].rowcount > 0 THEN gone \cup {loc[h].doc_id} ELSE gone
    /\ loc' = [loc EXCEPT ![h] = NoLocals]
    /\ UNCHANGED <<alive, cfg, buckets, born, live, ops, issued, failed>>

\* a statement or the commit of delete_document raises sqlite3.Error
DeleteError(h) ==
    /\ alive[h] /\ pc[h] \in {"del_buckets", "del_fp", "del_doc"}
    /\ txn' = NoTxn
    /\ pc' = [pc EXCEPT ![h] = "idle"]
    /\ last' = [h |-> h, op |-> "delete_error", doc_id |-> loc[h].doc_id]
    /\ loc' = [loc EXCEPT ![h] = NoLocals]
    /\ UNCHANGED <<db, alive, cfg, buckets, born, live, gone, ops, issued, failed>>

(***************************************************************************)
(* check_document, get_all_documents.                                      *)
(***************************************************************************)
\* SELECT COUNT(*) FROM documents
_get_document_count(store) == Cardinality(store.documents)

\* SELECT d.id, d.content, f.signature FROM documents d JOIN fingerprints f
\* ON d.id = f.document_id WHERE d.id = ?
JoinRows(store, doc_id) ==
    {[id |-> d.id, content |-> d.content, signature |-> f.signature] :
        <<d, f>> \in {p \in store.documents \X store.fingerprints :
                         p[1].id = doc_id /\ p[2].document_id = doc_id}}

\* the report of a check that found no candidates: it has no
\* candidates_found key
EmptyReport(store) ==
    [uniqueness_score |-> 10000,
     total_documents_checked |-> _get_document_count(store),
     similar_documents |-> <<>>,
     matching_fragments |-> <<>>]

\* a report that takes the similarity of the first result found, not of
\* the first result after the sort
FullReport_first_found(store, results, top_k, candidates) ==
    LET sorted == SortDesc(results, [i \in DOMAIN results |-> results[i].similarity])
        top_results == Take(sorted, top_k)
        max_similarity == IF results # <<>> THEN results[1].similarity ELSE 0
    IN  [uniqueness_score |-> 10000 - max_similarity,
         total_documents_checked |-> _get_document_count(store),
         candidates_found |-> Cardinality(candidates),
         similar_documents |-> top_results,
         matching_fragments |-> IF top_results # <<>>
                                THEN top_results[1].matching_fragments ELSE <<>>]

\* results.sort(...), results[:top_k], the uniqueness and the report
FullReport(store, results, top_k, candidates) ==
    LET sorted == SortDesc(results, [i \in DOMAIN results |-> results[i].similarity])
        top_results == Take(sorted, top_k)
        max_similarity == IF top_results # <<>> THEN top_results[1].similarity ELSE 0
    IN  [uniqueness_score |-> 10000 - max_similarity,
         total_documents_checked |-> _get_document_count(store),
         candidates_found |-> Cardinality(candidates),
         similar_documents |-> top_results,
         matching_fragments |-> IF top_results # <<>>
                                THEN top_results[1].matching_fragments ELSE <<>>]

\* shingles, signature, find_candidates; with no candidate, the early return.
\* top_k is first read after the loop: CheckFinish draws it.
CheckBegin(h, content) ==
    /\ Idle(h)
    /\ Started
    /\ LET signature == Signature(content, cfg[h])
           candidates == find_candidates(buckets[h], cfg[h], signature)
       IN  IF candidates = {}
           THEN /\ last' = [h |-> h, op |-> "check", content |-> content,
                              candidates |-> {}, report |-> EmptyReport(db),
                              results |-> <<>>, estimates |-> {},
                              at_start |-> [live |-> live, gone |-> gone]]
                /\ UNCHANGED <<pc, loc, issued, failed>>
           ELSE /\ last' = NoReturn
                /\ pc' = [pc EXCEPT ![h] = "check"]
                /\ loc' = [loc EXCEPT ![h] =
                             [op |-> "check", content |-> content,
                              signature |-> signature, candidates |-> candidates,
                              todo |-> candidates, results |-> <<>>,
                              estimates |-> {},
                              at_start |-> [live |-> live, gone |-> gone]]]
    /\ UNCHANGED <<db, txn, alive, cfg, buckets, born, live, gone, issued, failed>>

\* one turn of "for doc_id in candidates": the SELECT, the estimate and,
\* above the threshold, the exact similarity and the fragments.  A set of
\* small ints is iterated in ascending order.
CheckCandidate(h) ==
    /\ alive[h] /\ pc[h] = "check"
    /\ loc[h].todo # {}
    /\ LET doc_id == Min(loc[h].todo)
           rows == JoinRows(db, doc_id)
           row == CHOOSE r \in rows : TRUE
           entry == [document_id |-> row.id,
                     similarity |->
                        LET j == jaccard_similarity(Shingles(loc[h].content),
                                                    Shingles(row.content))
                        IN  RoundHundredths(j[1], j[2]),
                     matching_fragments |->
                        Take(Fragments(loc[h].content, row.content), MaxFragments)]
       IN  IF rows # {} /\ Len(loc[h].signature) # Len(row.signature)
           THEN \* estimate_similarity raises ValueError
                /\ pc' = [pc EXCEPT ![h] = "idle"]
                /\ last' = [h |-> h, op |-> "check_error",
                                content |-> loc[h].content]
                /\ loc' = [loc EXCEPT ![h] = NoLocals]
           ELSE /\ loc' = [loc EXCEPT
                     ![h].todo = @ \ {doc_id},
                     ![h].estimates =
                        IF rows # {}
                        THEN @ \cup {<<doc_id, Matches(loc[h].signature, row.signature)>>}
                        ELSE @,
                     ![h].results =
                        IF /\ rows # {}
                           /\ Matches(loc[h].signature, row.signature) * RefineDen
                                > RefineNum * Len(loc[h].signature)
                        THEN Append(@, entry) ELSE @]
                /\ last' = NoReturn
                /\ UNCHANGED <<pc, issued, failed>>
    /\ UNCHANGED <<db, txn, alive, cfg, buckets, born, live, gone, ops, issued, failed>>

\* a check that indexes the checked text under id 0 before it returns
CheckFinish_indexing(h, top_k) ==
    /\ alive[h] /\ pc[h] = "check"
    /\ loc[h].todo = {}
    /\ pc' = [pc EXCEPT ![h] = "idle"]
    /\ last' = [h |-> h, op |-> "check", content |-> loc[h].content, top_k |-> top_k,
                  candidates |-> loc[h].candidates,
                  report |-> FullReport(db, loc[h].results, top_k,
                                        loc[h].candidates),
                  results |-> loc[h].results, estimates |-> loc[h].estimates,
                  at_start |-> loc[h].at_start]
    /\ loc' = [loc EXCEPT ![h] = NoLocals]
    /\ buckets' = [buckets EXCEPT ![h] =
                      index_signature(@, cfg[h], 0, loc[h].signature)]
    /\ UNCHANGED <<db, txn, alive, cfg, born, live, gone, ops, issued, failed>>

\* after the loop: sort, cut to top_k, count the documents, return
CheckFinish(h, top_k) ==
    /\ alive[h] /\ pc[h] = "check"
    /\ loc[h].todo = {}
    /\ pc' = [pc EXCEPT ![h] = "idle"]
    /\ last' = [h |-> h, op |-> "check", content |-> loc[h].content, top_k |-> top_k,
                  candidates |-> loc[h].candidates,
                  report |-> FullReport(db, loc[h].results, top_k,
                                        loc[h].candidates),
                  results |-> loc[h].results, estimates |-> loc[h].estimates,
                  at_start |-> loc[h].at_start]
    /\ loc' = [loc EXCEPT ![h] = NoLocals]
    /\ UNCHANGED <<db, txn, alive, cfg, buckets, born, live, gone, ops, issued, failed>>

\* get_all_documents: the ids of SELECT ... FROM documents
List(h) ==
    /\ Idle(h)
    /\ Started
    /\ last' = [h |-> h, op |-> "list", ids |-> {d.id : d \in db.documents}]
    /\ UNCHANGED <<db, txn, alive, cfg, buckets, pc, loc, born, live, gone, issued, failed>>

(***************************************************************************)
(* Specifications.                                                         *)
(***************************************************************************)
Operate(h, texts) ==
    \/ Teardown(h)
    \/ Crash(h)
    \/ \E content \in texts : AddInsertDocument(h, content)
    \/ AddInsertFingerprint(h)
    \/ AddCommit(h)
    \/ AddIndex(h)
    \/ AddSaveInsert(h)
    \/ AddSaveCommit(h)
    \/ AddError(h)
    \/ \E doc_id \in 1..NextId(db) : DeleteBuckets(h, doc_id)
    \/ DeleteFingerprints(h)
    \/ DeleteDocuments(h)
    \/ DeleteCommit(h)
    \/ DeleteError(h)
    \/ \E content \in texts : CheckBegin(h, content)
    \/ CheckCandidate(h)
    \/ \E top_k \in TopKs : CheckFinish(h, top_k)
    \/ List(h)

\* two callers, each with a handle of its own on the one store, constructed
\* with the same, consistent parameters
Next == \E h \in Handles : Construct(h) \/ Operate(h, FewTexts)

Spec == Init /\ [][Next]_vars

\* one caller, who may pass any parameters to the constructor
NextAny == ConstructAny("h1") \/ Operate("h1", Texts)

SpecAny == Init /\ [][NextAny]_vars

(***************************************************************************)
(* jaccard_similarity on its own: a caller passes two shingle sets and     *)
(* reads the result.  The sets are the subsets of the shingles of a short  *)
(* text; the arguments and the result are kept in last.                    *)
(***************************************************************************)
\* create_shingles("abcdefgh"): abcde, bcdef, cdefg, defgh
ShingleSets == SUBSET create_shingles(<<"a","b","c","d","e","f","g","h">>, shingle_size)

InitJaccard ==
    /\ db = EmptyStore
    /\ txn = NoTxn
    /\ alive = [h \in Handles |-> FALSE]
    /\ cfg = [h \in Handles |-> NoConfig]
    /\ buckets = [h \in Handles |-> {}]
    /\ pc = [h \in Handles |-> "idle"]
    /\ loc = [h \in Handles |-> NoLocals]
    /\ born = [h \in Handles |-> {}]
    /\ live = {}
    /\ gone = {}
    /\ last \in {[op |-> "jaccard_call", set1 |-> a, set2 |-> b] :
                    a \in ShingleSets, b \in ShingleSets}
    /\ ops = 0
    /\ issued = {}
    /\ failed = {}

Jaccard ==
    /\ last.op = "jaccard_call"
    /\ last' = [op |-> "jaccard", set1 |-> last.set1, set2 |-> last.set2,
                result |-> jaccard_similarity(last.set1, last.set2)]
    /\ UNCHANGED <<db, txn, alive, cfg, buckets, pc, loc, born, live, gone, ops,
                   issued, failed>>

SpecJaccard == InitJaccard /\ [][Jaccard]_vars

(***************************************************************************)
(* find_matching_fragments on its own: a caller passes two texts and       *)
(* reads the list.  text1 is "bravo" b times then "alpha" n times, text2   *)
(* is "alpha" m times, "bravo" c times, "alpha" k times; the run lengths   *)
(* and the result are kept in last.                                        *)
(***************************************************************************)
Alpha == <<"a","l","p","h","a">>
Bravo == <<"b","r","a","v","o">>
\* the text of k words word, then the words of rest
Run(word, k, rest) == Join([i \in 1..k |-> word] \o rest)
Text1(b, n) == Run(Bravo, b, [i \in 1..n |-> Alpha])
Text2(m, c, k) == Run(Alpha, m, [i \in 1..c |-> Bravo] \o [i \in 1..k |-> Alpha])

InitFragments ==
    /\ db = EmptyStore
    /\ txn = NoTxn
    /\ alive = [h \in Handles |-> FALSE]
    /\ cfg = [h \in Handles |-> NoConfig]
    /\ buckets = [h \in Handles |-> {}]
    /\ pc = [h \in Handles |-> "idle"]
    /\ loc = [h \in Handles |-> NoLocals]
    /\ born = [h \in Handles |-> {}]
    /\ live = {}
    /\ gone = {}
    /\ last \in {[op |-> "fragments_call", b |-> b, n |-> n, m |-> m, c |-> c, k |-> k] :
                    b \in 0..1, n \in (MaxRun - 3)..MaxRun,
                    m \in (MaxRun - 2)..MaxRun, c \in 0..1,
                    k \in (MaxRun - 2)..MaxRun}
    /\ ops = 0
    /\ issued = {}
    /\ failed = {}

FindFragments ==
    /\ last.op = "fragments_call"
    /\ last' = [op |-> "fragments", b |-> last.b, n |-> last.n,
                m |-> last.m, c |-> last.c, k |-> last.k,
                result |-> find_matching_fragments(Text1(last.b, last.n),
                                                   Text2(last.m, last.c, last.k))]
    /\ UNCHANGED <<db, txn, alive, cfg, buckets, pc, loc, born, live, gone, ops,
                   issued, failed>>

SpecFragments == InitFragments /\ [][FindFragments]_vars

(***************************************************************************)
(* Properties.                                                             *)
(***************************************************************************)
AddPcs == {"add_doc", "add_fp", "add_index", "add_save"}

\* the ids the in-memory table of h holds in some bucket
Indexed(h) == {e[3] : e \in buckets[h]}

HasDocument(id) == \E d \in db.documents : d.id = id
HasFingerprint(id) == \E f \in db.fingerprints : f.document_id = id
BucketRows(id) == {r \in db.lsh_buckets : r.document_id = id}

\* the check that has just returned its report
Checked == last.op = "check"
\* the report lists id with similarity 100.00
ListedInFull(id) ==
    \E i \in DOMAIN last.report.similar_documents :
        /\ last.report.similar_documents[i].document_id = id
        /\ last.report.similar_documents[i].similarity = 10000
\* the documents with the checked content whose add had returned before the
\* check began and on which no delete has been called since
LiveMatches ==
    {d \in db.documents : /\ d.id \in last.at_start.live
                          /\ d.id \in live
                          /\ d.content = last.content}
\* every document the store ever held was deleted before the check began:
\* the store was empty for the whole of the check
EmptyThroughout == \A id \in 1..db.seq : id \in last.at_start.gone

\* C1: after delete(id) has returned for a stored document (one an add had
\* returned), no fingerprints row and no lsh_buckets row references id, and
\* id is in no bucket of the in-memory table of the handle that deleted.
C1_CascadeOnDelete ==
    (last.op = "delete" /\ last.deleted /\ last.was_live) =>
        /\ ~HasFingerprint(last.doc_id)
        /\ BucketRows(last.doc_id) = {}
        /\ last.doc_id \notin Indexed(last.h)

\* C2: add is atomic against a crash: whenever no add is under way, each
\* issued id has its document, its fingerprint and all its bucket rows in
\* the store, or none of them.
C2_AddAtomic ==
    (\A h \in Handles : pc[h] \notin AddPcs) =>
        \A id \in 1..db.seq :
            \/ /\ HasDocument(id)
               /\ HasFingerprint(id)
               /\ Cardinality(BucketRows(id)) = DefaultConfig.num_bands
            \/ /\ ~HasDocument(id)
               /\ ~HasFingerprint(id)
               /\ BucketRows(id) = {}

\* C3: when a persistent write of an add fails, the in-memory table of the
\* handle holds no entry for the id of that add.
C3_FailedAddRolledBack ==
    last.op = "add_error" => last.doc_id \notin Indexed(last.h)

\* C4: read-your-writes: a check of the content of a document whose add
\* had returned before the check began, with no delete of it, has the
\* document among its candidates, whichever handle checks.
C4_ReadYourWrites ==
    Checked => \A d \in LiveMatches : d.id \in last.candidates

\* C5: in every state, the in-memory table of every handle holds exactly
\* the entries of the lsh_buckets rows.
C5_TableMatchesRows ==
    \A h \in Handles : alive[h] => buckets[h] = load_from_db(db)

\* C6, as stated: a handle constructed after add(D) returned reports D with
\* similarity 100.00 on a check of D's content, and list returns every
\* document added and not deleted.
C6_RoundTripAsStated ==
    /\ Checked =>
          \A d \in LiveMatches : d.id \in born[last.h] => ListedInFull(d.id)
    /\ last.op = "list" => live \subseteq last.ids

\* C6, amended: such a check reports a top result of similarity 100.00, and
\* reports D itself with similarity 100.00 unless top_k other documents of
\* similarity 100.00 fill the report; list returns every document added and
\* not deleted.
C6_RoundTrip ==
    /\ Checked =>
          \A d \in LiveMatches : d.id \in born[last.h] =>
              /\ last.report.similar_documents # <<>>
              /\ last.report.similar_documents[1].similarity = 10000
              /\ \/ ListedInFull(d.id)
                 \/ /\ Len(last.report.similar_documents) = last.top_k
                    /\ \A i \in DOMAIN last.report.similar_documents :
                          /\ last.report.similar_documents[i].similarity = 10000
                          /\ last.report.similar_documents[i].document_id # d.id
    /\ last.op = "list" => live \subseteq last.ids

\* a handle constructed after the add of a document returned has checked
\* that document's content and reports it at 100.00
C6_Witness ==
    /\ Checked
    /\ \E d \in LiveMatches : d.id \in born[last.h] /\ ListedInFull(d.id)

\* C7: a check of the content of a stored document reports a top result of
\* similarity 100.00 and uniqueness 0.00, and the top result is that
\* document when no other stored document has the same content.
C7_SelfMatch ==
    Checked =>
        \A d \in LiveMatches :
            /\ last.report.similar_documents # <<>>
            /\ last.report.similar_documents[1].similarity = 10000
            /\ last.report.uniqueness_score = 0
            /\ (\A e \in db.documents : e.content = d.content => e.id = d.id)
                  => last.report.similar_documents[1].document_id = d.id

\* C8: no check that began after delete(id) returned true lists id; and a
\* check that began after every document had been deleted reports a
\* uniqueness of 100.00.
C8_DeletedNeverListed ==
    Checked =>
        /\ \A i \in DOMAIN last.report.similar_documents :
              last.report.similar_documents[i].document_id \notin last.at_start.gone
        /\ EmptyThroughout => last.report.uniqueness_score = 10000

\* a check that still had a deleted document among its candidates
C8_Witness ==
    /\ Checked
    /\ last.candidates \cap last.at_start.gone # {}
    /\ EmptyThroughout

\* C9: a check on a store that holds no documents reports uniqueness
\* 100.00, no similar documents, no fragments and candidates_found = 0.
C9_EmptyCorpusReport ==
    (Checked /\ EmptyThroughout) =>
        /\ last.report.uniqueness_score = 10000
        /\ last.report.similar_documents = <<>>
        /\ last.report.matching_fragments = <<>>
        /\ "candidates_found" \in DOMAIN last.report
        /\ last.report.candidates_found = 0

\* C10: no handle exists whose num_bands * rows_per_band differs from its
\* num_hashes, so every signature a handle works on has B * R slots.
C10_ConfigChecked ==
    \A h \in Handles : alive[h] =>
        /\ cfg[h].num_bands * cfg[h].rows_per_band = cfg[h].num_hashes
        /\ "signature" \in DOMAIN loc[h] =>
              Len(loc[h].signature) = cfg[h].num_bands * cfg[h].rows_per_band

\* C11: a delete returns true exactly when a documents row with its id was
\* stored and is removed by it; a delete of an id that is not stored
\* returns false and leaves documents, fingerprints and lsh_buckets as
\* they were.
C11_DeleteReturn ==
    [][\A h \in Handles :
          (pc[h] = "del_doc" /\ last'.op = "delete" /\ last'.h = h) =>
              LET id == loc[h].doc_id
                  stored == \E d \in db.documents : d.id = id
              IN  /\ last'.deleted <=>
                        (stored /\ ~ \E d \in db'.documents : d.id = id)
                  /\ ~stored =>
                        /\ ~last'.deleted
                        /\ db'.documents = db.documents
                        /\ db'.fingerprints = db.fingerprints
                        /\ db'.lsh_buckets = db.lsh_buckets]_vars

\* C12: every add returns a fresh id: no add returns an id an add has
\* returned before, and the id an add draws is neither a stored id nor one
\* already returned or deleted.
C12_FreshIds ==
    [][\A h \in Handles :
          /\ (last'.op = "add" /\ last'.h = h) => last'.doc_id \notin issued
          /\ (pc[h] = "idle" /\ pc'[h] = "add_doc") =>
                loc'[h].doc_id \notin
                    issued \cup gone \cup {d.id : d \in db.documents}]_vars

\* an add has returned an id after an earlier add returned one and after a
\* delete returned true
C12_Witness ==
    /\ last.op = "add"
    /\ gone # {}
    /\ issued \ {last.doc_id} # {}

\* C13: whenever no add and no delete is under way and the add of every
\* stored document has ended, by returning or by raising, every stored
\* document has exactly one fingerprints row and exactly num_bands
\* lsh_buckets rows, one for each band id.
C13_OneFingerprintAndBRows ==
    (/\ \A h \in Handles : pc[h] \in {"idle", "check"}
     /\ \A d \in db.documents : d.id \in issued \cup failed) =>
        \A d \in db.documents :
            /\ Cardinality({f \in db.fingerprints : f.document_id = d.id}) = 1
            /\ Cardinality(BucketRows(d.id)) = DefaultConfig.num_bands
            /\ {r.band_id : r \in BucketRows(d.id)} = 0..(DefaultConfig.num_bands - 1)

\* C14: in every state of the store, every lsh_buckets row and every
\* fingerprints row references an id that is in documents.
C14_ReferentialIntegrity ==
    /\ \A r \in db.lsh_buckets : HasDocument(r.document_id)
    /\ \A f \in db.fingerprints : HasDocument(f.document_id)

\* the rows of the store that belong to id
RowsOf(store, id) ==
    [documents |-> {d \in store.documents : d.id = id},
     fingerprints |-> {f \in store.fingerprints : f.document_id = id},
     lsh_buckets |-> {r \in store.lsh_buckets : r.document_id = id}]

\* C15: delete is atomic for readers: a step that removes any row of an id
\* from the store readers see removes its document, its fingerprint and
\* all its bucket rows at once.
C15_DeleteAtomic ==
    [][\A id \in 1..db.seq :
          (\/ ~(RowsOf(db, id).documents \subseteq RowsOf(db', id).documents)
           \/ ~(RowsOf(db, id).fingerprints \subseteq RowsOf(db', id).fingerprints)
           \/ ~(RowsOf(db, id).lsh_buckets \subseteq RowsOf(db', id).lsh_buckets))
          => RowsOf(db', id) = RowsOf(EmptyStore, id)]_vars

\* a delete has just removed a document that a check running on another
\* handle has among its candidates
C15_Witness ==
    /\ last.op = "delete" /\ last.deleted /\ last.was_live
    /\ \E g \in Handles : /\ pc[g] = "check"
                          /\ last.doc_id \in loc[g].candidates

\* C16: in every report, uniqueness_score = 100.00 - max_similarity, the
\* largest similarity among similar_documents, 0 when there is none; so
\* uniqueness_score lies in 0 .. 100.00.
C16_UniquenessFormula ==
    Checked =>
        LET docs == last.report.similar_documents
            max_similarity == Max({0} \cup {docs[i].similarity : i \in DOMAIN docs})
        IN  /\ last.report.uniqueness_score = 10000 - max_similarity
            /\ last.report.uniqueness_score \in 0..10000

\* a report with two entries of different similarity
C16_Witness ==
    /\ Checked
    /\ Len(last.report.similar_documents) = 2
    /\ last.report.similar_documents[1].similarity
          # last.report.similar_documents[2].similarity

\* the candidates the check refined: read with an estimate above 0.3
Refined == {e[1] : e \in {x \in last.estimates :
                x[2] * RefineDen > RefineNum * DefaultConfig.num_hashes}}

C18_JaccardBoundsAsStated ==
    last.op = "jaccard" =>
        /\ 0 <= last.result[1] /\ last.result[1] <= last.result[2]
        /\ last.result[2] > 0
        /\ last.result[1] = last.result[2] <=> last.set1 = last.set2
        /\ last.result[1] = 0 <=> last.set1 \cap last.set2 = {}

\* C18, amended: the similarity lies in 0 .. 1, is 1 exactly when the sets
\* are equal and not empty, and is 0 exactly when they have no common
\* element; two empty sets have similarity 0.
C18_JaccardBounds ==
    last.op = "jaccard" =>
        /\ 0 <= last.result[1] /\ last.result[1] <= last.result[2]
        /\ last.result[2] > 0
        /\ last.result[1] = last.result[2] <=>
              (last.set1 = last.set2 /\ last.set1 # {})
        /\ last.result[1] = 0 <=> last.set1 \cap last.set2 = {}

\* the similarity of two overlapping, different sets lies strictly
\* between 0 and 1
C18_Witness ==
    /\ last.op = "jaccard"
    /\ last.set1 \cap last.set2 # {}
    /\ last.set1 # last.set2
    /\ 0 < last.result[1] /\ last.result[1] < last.result[2]

\* the step is one of a check on h: its start, one turn of its loop, its
\* return or its abandonment
CheckStep(h) ==
    \/ pc[h] = "check" /\ (pc'[h] # pc[h] \/ loc'[h] # loc[h])
    \/ pc[h] = "idle" /\ pc'[h] = "check"
    \/ pc[h] = "idle" /\ last'.op = "check" /\ last'.h = h

\* C19: no step of a check, completed or abandoned, changes the documents,
\* fingerprints or lsh_buckets relations, an open transaction, or the
\* membership of any in-memory bucket of a handle that lives on.
C19_CheckCommitsNothing ==
    [][\A h \in Handles :
          CheckStep(h) =>
              /\ db' = db
              /\ txn' = txn
              /\ \A g \in Handles : alive'[g] => buckets'[g] = buckets[g]]_vars

\* a check has returned a report with a result from a store that holds
\* documents, on a handle whose table holds entries
C19_Witness ==
    /\ Checked
    /\ last.results # <<>>
    /\ db.documents # {}
    /\ buckets[last.h] # {}

\* the ids the table holds in the bucket of band_id keyed by bucket_hash
BucketIds(table, band_id, bucket_hash) ==
    {e[3] : e \in {t \in table : t[1] = band_id /\ t[2] = bucket_hash}}

\* candidates is what C20 says of the query signature q on the table:
\* the union of the buckets q's bands fall in, with every indexed stored
\* document that equals q on a whole band, and no id outside the table
ExactCandidates(table, c, q, candidates) ==
    /\ candidates =
          UNION {BucketIds(table, b, _hash_band(Band(q, b, c.rows_per_band))) :
                    b \in 0..(c.num_bands - 1)}
    /\ \A f \in db.fingerprints :
          (/\ f.document_id \in {e[3] : e \in table}
           /\ \E b \in 0..(c.num_bands - 1) :
                  Band(f.signature, b, c.rows_per_band) = Band(q, b, c.rows_per_band))
          => f.document_id \in candidates
    /\ candidates \subseteq {e[3] : e \in table}

\* C20: the candidates of a check are exactly the union, over the bands,
\* of the ids in the in-memory bucket keyed by the hash of the query's
\* slice: every indexed document equal to the query on a whole band is
\* among them, the query's own document included, and no id that is not
\* in the table.
C20_CandidatesAreBucketUnion ==
    /\ \A h \in Handles :
          (alive[h] /\ pc[h] = "check") =>
              ExactCandidates(buckets[h], cfg[h], loc[h].signature, loc[h].candidates)
    /\ Checked =>
          ExactCandidates(buckets[last.h], cfg[last.h],
                          Signature(last.content, cfg[last.h]), last.candidates)

\* a check has among its candidates a stored document whose signature
\* equals the query's on one band and differs on another, together with
\* the document whose signature is the query's
C20_Witness ==
    /\ Checked
    /\ \E f \in db.fingerprints :
          /\ f.document_id \in last.candidates
          /\ f.signature # Signature(last.content, cfg[last.h])
    /\ \E f \in db.fingerprints :
          /\ f.document_id \in last.candidates
          /\ f.signature = Signature(last.content, cfg[last.h])

\* C21: right after a handle is constructed, its in-memory table holds
\* exactly the <<band_id, bucket_hash, document_id>> of the lsh_buckets rows
\* of that moment, whatever adds and deletes came before.
C21_StartupRehydration ==
    [][\A h \in Handles :
          (~alive[h] /\ alive'[h]) =>
              /\ \A r \in db.lsh_buckets :
                    <<r.band_id, r.bucket_hash, r.document_id>> \in buckets'[h]
              /\ \A e \in buckets'[h] :
                    \E r \in db.lsh_buckets :
                        /\ r.band_id = e[1]
                        /\ r.bucket_hash = e[2]
                        /\ r.document_id = e[3]]_vars

\* a handle constructed after adds had returned and a delete had returned
\* true holds the rows the store has
C21_Witness ==
    \E h \in Handles :
        /\ alive[h] /\ pc[h] = "idle"
        /\ born[h] # {}
        /\ gone # {}
        /\ buckets[h] # {}
        /\ \A r \in db.lsh_buckets :
              <<r.band_id, r.bucket_hash, r.document_id>> \in buckets[h]

\* the word indices of doc1 a fragment spans
Span(fragment) ==
    fragment.position_doc1..(fragment.position_doc1 + fragment.length - 1)

\* C22: the returned fragments are in non-increasing order of word length,
\* ties by earlier start; no fragment starts at a word index an earlier
\* fragment of the list spans; and no two fragments span a common word
\* index of doc1.
C22_NoOverlappingFragments ==
    last.op = "fragments" =>
        LET fr == last.result
        IN  /\ \A i, j \in DOMAIN fr :
                  i < j => \/ fr[i].length > fr[j].length
                           \/ /\ fr[i].length = fr[j].length
                              /\ fr[i].position_doc1 < fr[j].position_doc1
            /\ \A i, j \in DOMAIN fr :
                  i < j => fr[j].position_doc1 \notin Span(fr[i])
            /\ \A i, j \in DOMAIN fr :
                  i # j => Span(fr[i]) \cap Span(fr[j]) = {}

\* the step is one of an add or a delete on h, which lives on
OwnStep(h) ==
    /\ alive'[h]
    /\ loc[h].op \in {"add", "delete"} \/ loc'[h].op \in {"add", "delete"}
    /\ pc'[h] # pc[h] \/ loc'[h] # loc[h]
\* the id of the document that add or delete is about
OwnId(h) == IF loc[h].op \in {"add", "delete"} THEN loc[h].doc_id ELSE loc'[h].doc_id
\* the entries of a table that hold id
EntriesOf(table, id) == {e \in table : e[3] = id}

\* C23: a step of add or delete leaves the document row, the fingerprint,
\* the bucket rows and the in-memory memberships of every other document
\* as they were; and no step changes the content of a document or the
\* signature of a fingerprint that stays in the store.
C23_OnlyOwnDocument ==
    [][/\ \A h \in Handles :
             OwnStep(h) =>
                 \A id \in (0..(db'.seq + 1)) \ {OwnId(h)} :
                     /\ RowsOf(db', id) = RowsOf(db, id)
                     /\ \A g \in Handles :
                           EntriesOf(buckets'[g], id) = EntriesOf(buckets[g], id)
       /\ \A d \in db.documents :
             (\E e \in db'.documents : e.id = d.id) => d \in db'.documents
       /\ \A f \in db.fingerprints :
             (\E e \in db'.fingerprints : e.document_id = f.document_id)
                 => f \in db'.fingerprints]_vars

\* a delete has removed its document from a store that holds another
\* document, which has its bucket rows and is in the deleting handle's table
C23_Witness ==
    /\ last.op = "delete" /\ last.deleted
    /\ \E d \in db.documents :
          /\ d.id # last.doc_id
          /\ BucketRows(d.id) # {}
          /\ d.id \in Indexed(last.h)

=============================================================================
